---- MODULE Spec2Model ----
(***************************************************************************)
(* State-machine model of the DevSensei backend core: the sliding-window   *)
(* RateLimiter (app/services/performance_service.py), the CodeExecutor     *)
(* engine and validator (app/services/compiler_service.py), and the HTTP   *)
(* handlers that compose them (app/api/ai_compiler.py, app/api/code.py).   *)
(***************************************************************************)
EXTENDS Integers, Sequences, FiniteSets, TLC

(***************************************************************************)
(* Bounds of the model.                                                    *)
(***************************************************************************)
\* largest value of the clock (seconds)
MaxNow == 61
\* largest number of admissions recorded in a behaviour
MaxAdmitted == 6

\* largest number of engine calls in a behaviour of SpecEngine
MaxEngineCalls == 1
\* largest number of requests the endpoints take in a behaviour of SpecApi
MaxRequests == 3
\* largest number of /generate requests suspended at the same time
MaxInflight == 2
\* largest number of get_from_cache calls in a behaviour
MaxLookups == 3

\* amounts by which time.time() may advance between two operations
Steps == {30, 31}

(***************************************************************************)
(* Text helpers: Python's "p in s" over str.                               *)
(***************************************************************************)
\* p in s
Contains(s, p) ==
    \E i \in 1..(Len(s) - Len(p) + 1) : SubSeq(s, i, i + Len(p) - 1) = p

(***************************************************************************)
(* RateLimiter configuration (performance_service.py, __init__).           *)
(***************************************************************************)
cleanup_interval == 300

default_limits ==
    [requests_per_minute |-> 60,
     requests_per_hour |-> 1000,
     code_executions_per_minute |-> 10,
     ai_requests_per_minute |-> 20]

user_limits ==
    [admin |-> [requests_per_minute |-> 120,
                requests_per_hour |-> 5000,
                code_executions_per_minute |-> 50,
                ai_requests_per_minute |-> 100],
     demo |-> [requests_per_minute |-> 30,
               requests_per_hour |-> 500,
               code_executions_per_minute |-> 5,
               ai_requests_per_minute |-> 10]]

\* a lookup that gives a tier that is not configured the literal 60
LimitOfNoFallback(limit_type, user_type) ==
    IF user_type \in DOMAIN user_limits /\ limit_type \in DOMAIN user_limits[user_type]
    THEN user_limits[user_type][limit_type]
    ELSE 60

\* limits = self.user_limits.get(user_type, self.default_limits)
\* limit  = limits.get(limit_type, self.default_limits.get(limit_type, 60))
LimitOf(limit_type, user_type) ==
    LET limits == IF user_type \in DOMAIN user_limits
                  THEN user_limits[user_type] ELSE default_limits
    IN  IF limit_type \in DOMAIN limits THEN limits[limit_type]
        ELSE IF limit_type \in DOMAIN default_limits THEN default_limits[limit_type]
        ELSE 60

\* a limiter that gives every limit type the window of one minute
WindowOfMinuteOnly(limit_type) == 60

\* the if / elif / else over the limit type's name
WindowOf(limit_type) ==
    IF Contains(limit_type, "minute") THEN 60
    ELSE IF Contains(limit_type, "hour") THEN 3600
    ELSE 60

\* an eviction that also drops the entry that is exactly one window old
RECURSIVE EvictInclusive(_, _, _)
EvictInclusive(request_times, t, window) ==
    IF request_times # <<>> /\ Head(request_times) <= t - window
    THEN EvictInclusive(Tail(request_times), t, window)
    ELSE request_times

\* an eviction that tests the oldest entry once: if instead of while
EvictOnce(request_times, t, window) ==
    IF request_times # <<>> /\ Head(request_times) < t - window
    THEN Tail(request_times)
    ELSE request_times

\* while request_times and request_times[0] < now - window: popleft()
RECURSIVE Evict(_, _, _)
Evict(request_times, t, window) ==
    IF request_times # <<>> /\ Head(request_times) < t - window
    THEN Evict(Tail(request_times), t, window)
    ELSE request_times

\* a limiter that admits one request too many
AtCeilingOffByOne(count, limit) == count > limit

\* if len(request_times) >= limit: return False
AtCeiling(count, limit) == count >= limit

\* f"{key}:{limit_type}"
KeyOf(key, limit_type) == key \o ":" \o limit_type

\* self.requests[k] of a defaultdict(deque): the deque, created empty when absent
Deque(reqs, k) == IF k \in DOMAIN reqs THEN reqs[k] ELSE <<>>

(***************************************************************************)
(* Python values shared by the engine models.                              *)
(***************************************************************************)
\* Python's None, where a str is expected
None == "<None>"

\* str.lower() on one character (the ASCII letters)
UpperCase == "ABCDEFGHIJKLMNOPQRSTUVWXYZ"
LowerCase == "abcdefghijklmnopqrstuvwxyz"

LowerChar(c) ==
    IF \E i \in 1..Len(UpperCase) : SubSeq(UpperCase, i, i) = c
    THEN LET i == CHOOSE j \in 1..Len(UpperCase) : SubSeq(UpperCase, j, j) = c
         IN  SubSeq(LowerCase, i, i)
    ELSE c

\* str.lower()
RECURSIVE Lower(_)
Lower(s) ==
    IF Len(s) = 0 THEN ""
    ELSE LowerChar(SubSeq(s, 1, 1)) \o Lower(SubSeq(s, 2, Len(s)))

\* the characters str.strip() removes
Whitespace == {" ", "\t", "\n", "\r"}

\* not s.strip()
IsBlank(s) == \A i \in 1..Len(s) : SubSeq(s, i, i) \in Whitespace

(***************************************************************************)
(* CodeExecutor (compiler_service.py).                                     *)
(***************************************************************************)
supported_languages ==
    [python |-> [extension |-> ".py", command |-> <<"python">>],
     javascript |-> [extension |-> ".js", command |-> <<"node">>],
     typescript |-> [extension |-> ".ts", command |-> <<"npx", "ts-node">>],
     java |-> [extension |-> ".java", command |-> <<"javac", "{file}", "&&", "java">>],
     cpp |-> [extension |-> ".cpp",
              command |-> <<"g++", "-o", "{output}", "{file}", "&&", "{output}">>],
     c |-> [extension |-> ".c",
            command |-> <<"gcc", "-o", "{output}", "{file}", "&&", "{output}">>],
     go |-> [extension |-> ".go", command |-> <<"go", "run">>],
     rust |-> [extension |-> ".rs", command |-> <<"rustc", "{file}", "&&", "{output}">>],
     php |-> [extension |-> ".php", command |-> <<"php">>],
     ruby |-> [extension |-> ".rb", command |-> <<"ruby">>],
     shell |-> [extension |-> ".sh", command |-> <<"bash">>],
     powershell |-> [extension |-> ".ps1", command |-> <<"powershell", "-File">>]]

max_execution_time == 10
max_output_size == 1024 * 1024

\* CodeExecutor.validate_code: the denylist
dangerous_patterns ==
    <<"import os", "import subprocess", "import sys",
      "exec(", "eval(", "__import__",
      "open(", "file(", "input(",
      "raw_input(", "System.", "Runtime.",
      "fs.", "require(\"fs\")", "require(\"child_process\")",
      "process.exit", "System.exit">>

\* pattern.lower() of every pattern of the denylist
patterns_lower == [i \in 1..Len(dangerous_patterns) |-> Lower(dangerous_patterns[i])]

\* a validate_code that compares the patterns with the code as written
validate_code_case_sensitive(language, code) ==
    IF IsBlank(code) THEN [valid |-> FALSE, error |-> "Code cannot be empty"]
    ELSE LET hits == {i \in 1..Len(dangerous_patterns) :
                          Contains(code, dangerous_patterns[i])}
         IN  IF hits # {}
             THEN [valid |-> FALSE,
                   error |-> "Potentially dangerous code detected: "
                             \o dangerous_patterns[CHOOSE i \in hits :
                                                       \A j \in hits : i <= j]]
             ELSE [valid |-> TRUE, error |-> None]

\* CodeExecutor.validate_code(language, code): the dict it returns
validate_code(language, code) ==
    IF IsBlank(code) THEN [valid |-> FALSE, error |-> "Code cannot be empty"]
    ELSE LET code_lower == Lower(code)
             hits == {i \in 1..Len(dangerous_patterns) :
                          Contains(code_lower, patterns_lower[i])}
         IN  IF hits # {}
             THEN [valid |-> FALSE,
                   error |-> "Potentially dangerous code detected: "
                             \o dangerous_patterns[CHOOSE i \in hits :
                                                       \A j \in hits : i <= j]]
             ELSE [valid |-> TRUE, error |-> None]

\* cmd.replace('{file}', file_path).replace('{output}', str(output_file))
Substitute(cmd, file_path, output_file) ==
    IF cmd = "{file}" THEN file_path
    ELSE IF cmd = "{output}" THEN output_file
    ELSE cmd

\* CodeExecutor._prepare_command(language, file_path, temp_dir), os.name = 'posix'
prepare_command(language, file_path, temp_dir) ==
    LET command == supported_languages[language].command
    IN  IF language = "java" THEN <<"java", "-cp", temp_dir, "code">>
        ELSE IF language \in {"cpp", "c", "rust"}
        THEN [i \in 1..Len(command) |->
                  Substitute(command[i], file_path, temp_dir \o "/output")]
        ELSE Append(command, file_path)

(***************************************************************************)
(* Child processes.  What a spawned program does is the environment's      *)
(* choice: it exits with code 0 or 1 after Runtime seconds, or never       *)
(* terminates by itself ("hang").                                          *)
(***************************************************************************)
Outcomes == {"exit0", "exit1", "hang"}
ReturnCode(outcome) == IF outcome = "exit0" THEN 0 ELSE 1
Runtime(outcome) == 1

\* a text of n characters
RECURSIVE Fill(_)
Fill(n) ==
    IF n = 0 THEN ""
    ELSE IF n % 2 = 1 THEN "x" \o Fill(n - 1)
    ELSE LET half == Fill(n \div 2) IN half \o half

\* What the process writes to its two streams before it ends or is killed:
\* a short text, or (env.size = "long") one character more than
\* max_output_size.
Stdout(env) == IF env.size = "long" THEN Fill(max_output_size + 1) ELSE "<stdout>"
Stderr(env) == IF env.size = "long" THEN Fill(max_output_size + 1) ELSE "<stderr>"

\* An Optional[int] timeout is the set of its values: {} for None, {t} for t.
\* The process is still running when a wait of `timeout` seconds ends
Outlives(outcome, timeout) ==
    \E t \in timeout : outcome = "hang" \/ Runtime(outcome) > t

\* the process never ends and nothing bounds the wait for it
WaitsForever(outcome, timeout) == timeout = {} /\ outcome = "hang"

\* subprocess.Popen.__init__ has no parameter `timeout`: the call at
\* _execute_with_limits raises TypeError before any process is created
PopenAcceptsTimeout == FALSE

\* stdout[:self.max_output_size] + marker when the stream is longer than the cap
Truncate(stream, marker) ==
    IF Len(stream) > max_output_size
    THEN SubSeq(stream, 1, max_output_size) \o marker
    ELSE stream

\* CodeExecutor._execute_with_limits(command, stdin, cwd).  env.spawn tells
\* whether the executable can be started, env.run what the process does.
\* steps: the processes started; alive: those still running at return.
execute_with_limits(command, stdin, cwd, env) ==
    IF ~PopenAcceptsTimeout \/ env.spawn = "fail"
    THEN [success |-> FALSE, stdout |-> "", stderr |-> "Execution failed",
          return_code |-> -1, steps |-> <<>>, alive |-> {}]
    ELSE IF Outlives(env.run, {max_execution_time})
    THEN [success |-> FALSE, stdout |-> "", stderr |-> "Execution timed out",
          return_code |-> -1, steps |-> <<command[1]>>, alive |-> {command[1]}]
    ELSE [success |-> ReturnCode(env.run) = 0,
          stdout |-> Truncate(Stdout(env), "\n[Output truncated - too large]"),
          stderr |-> IF ReturnCode(env.run) # 0
                     THEN Truncate(Stderr(env), "\n[Error output truncated - too large]")
                     ELSE "",
          return_code |-> ReturnCode(env.run),
          steps |-> <<command[1]>>, alive |-> {}]

\* tempfile.TemporaryDirectory() of call number n
TempDir(n) == "/tmp/tmp" \o ToString(n)

\* a run_code without the check of the language
UnsupportedNever(language) == FALSE

\* if language not in self.supported_languages
Unsupported(language) == language \notin DOMAIN supported_languages

\* a run_code whose except clause does not catch the exception
ExecutionErrorPropagates(created) ==
    [status |-> "raised", success |-> FALSE, output |-> "",
     error |-> "Execution error", steps |-> <<>>,
     created |-> created, left |-> {}, alive |-> {}]

\* the except clause of run_code: the exception becomes a result; the
\* TemporaryDirectory has removed what the call created
ExecutionError(created) ==
    [status |-> "returned", success |-> FALSE, output |-> "",
     error |-> "Execution error", steps |-> <<>>,
     created |-> created, left |-> {}, alive |-> {}]

\* CodeExecutor.run_code(language, code, stdin) as call number n.
\* env.tmp: "ok", or which file-system operation raises OSError.
\* status: "returned" or "raised"; created: the paths the call created;
\* left: those of them that exist when the call is over.
run_code_result(language, code, stdin, env, n) ==
    LET lang == Lower(language)
        temp_dir == TempDir(n)
    IN  \* language.lower() is outside the try: AttributeError on None
        IF language = None
        THEN [status |-> "raised", success |-> FALSE, output |-> "",
              error |-> "AttributeError", steps |-> <<>>,
              created |-> {}, left |-> {}, alive |-> {}]
        ELSE IF Unsupported(lang)
        THEN [status |-> "returned", success |-> FALSE, output |-> "",
              error |-> "Language is not supported",
              steps |-> <<>>, created |-> {}, left |-> {}, alive |-> {}]
        ELSE IF env.tmp = "mkdtemp"
        THEN ExecutionError({})
        \* self.supported_languages[language]: KeyError inside the try
        ELSE IF lang \notin DOMAIN supported_languages
        THEN ExecutionError({temp_dir})
        ELSE IF env.tmp = "open"
        THEN ExecutionError({temp_dir})
        ELSE LET temp_file ==
                     temp_dir \o "/code" \o supported_languages[lang].extension
             IN  IF code = None
                 THEN ExecutionError({temp_dir, temp_file})
                 ELSE LET command == prepare_command(lang, temp_file, temp_dir)
                          result == execute_with_limits(command, stdin, temp_dir, env)
                      IN  [status |-> "returned", success |-> result.success,
                           output |-> result.stdout, error |-> result.stderr,
                           steps |-> result.steps,
                           created |-> {temp_dir, temp_file}, left |-> {},
                           alive |-> result.alive]

(***************************************************************************)
(* The /api/code/execute handler (api/code.py), an engine of its own.      *)
(***************************************************************************)
languages ==
    [python |-> [command |-> "python", args |-> <<>>, extension |-> ".py"],
     javascript |-> [command |-> "node", args |-> <<>>, extension |-> ".js"],
     typescript |-> [command |-> "ts-node", args |-> <<>>, extension |-> ".ts"],
     java |-> [command |-> "java", args |-> <<>>, extension |-> ".java"],
     cpp |-> [command |-> "g++", args |-> <<"-o", "program", "-std=c++17">>,
              extension |-> ".cpp"],
     c |-> [command |-> "gcc", args |-> <<"-o", "program", "-std=c99">>,
            extension |-> ".c"],
     go |-> [command |-> "go", args |-> <<"run">>, extension |-> ".go"],
     rust |-> [command |-> "rustc", args |-> <<"-o", "program">>, extension |-> ".rs"],
     php |-> [command |-> "php", args |-> <<>>, extension |-> ".php"],
     ruby |-> [command |-> "ruby", args |-> <<>>, extension |-> ".rb"],
     csharp |-> [command |-> "dotnet", args |-> <<"run">>, extension |-> ".cs"],
     swift |-> [command |-> "swift", args |-> <<>>, extension |-> ".swift"]]

\* CodeExecutionRequest.timeout when the caller gives none
default_timeout == 30

\* subprocess.run(argv, timeout=timeout) of a program that behaves as `outcome`:
\* how the call ends.  On TimeoutExpired subprocess.run has killed the child
\* and waited for it before it raises.
SubprocessRun(outcome, timeout, spawn) ==
    IF spawn = "fail" THEN "OSError"
    ELSE IF Outlives(outcome, timeout) THEN "TimeoutExpired"
    ELSE IF WaitsForever(outcome, timeout) THEN "blocked"
    ELSE "completed"

\* the CodeExecutionResponse the handler returns, with what the call did
Response(output, error, exit_code, steps, created) ==
    [status |-> "returned", output |-> output, error |-> error,
     exit_code |-> exit_code, steps |-> steps, created |-> created,
     left |-> created, alive |-> {}]

\* raise HTTPException(status_code=500, detail=f"Code execution error: {str(e)}")
\* of the outermost except clause, which also catches the handler's own
\* HTTPException
Raised500(e) ==
    [status |-> "raised", http |-> 500, error |-> "Code execution error: " \o e,
     steps |-> <<>>, created |-> {}, left |-> {}, alive |-> {}]

\* the call never returns: subprocess.run waits without a timeout for a
\* child that does not terminate
Blocked(steps, created) ==
    [status |-> "blocked", steps |-> steps, created |-> created,
     left |-> created, alive |-> {steps[Len(steps)]}]

\* the except clauses of the inner try, and the common return
Finish(how, outcome, timeout, steps, created, env) ==
    IF how = "OSError"
    THEN Response("", "Execution error", -1, SubSeq(steps, 1, Len(steps) - 1), created)
    ELSE IF how = "TimeoutExpired"
    THEN Response("", "Execution timeout", -1, steps, created)
    ELSE IF how = "blocked"
    THEN Blocked(steps, created)
    ELSE Response(Stdout(env),
                  IF ReturnCode(outcome) # 0 THEN Stderr(env) ELSE None,
                  ReturnCode(outcome), steps, created)

\* a compile step followed, when the compiler returns 0, by a run step
CompileThenRun(timeout, env, created, artifact) ==
    LET compile == SubprocessRun(env.compile, timeout, env.spawn)
        run == SubprocessRun(env.run, timeout, "ok")
    IN  IF compile # "completed"
        THEN Finish(compile, env.compile, timeout, <<"compile">>, created, env)
        ELSE IF ReturnCode(env.compile) # 0
        THEN Response("", "Compilation error:\n<stderr>", ReturnCode(env.compile),
                      <<"compile">>, created)
        ELSE Finish(run, env.run, timeout, <<"compile", "run">>,
                    created \cup {artifact}, env)

\* execute_code(request) as call number n
execute_code_result(language, code, input_data, timeout, env, n) ==
    LET temp_file_path ==
            "/tmp/tmp" \o ToString(n)
            \o (IF language \in DOMAIN languages THEN languages[language].extension
                ELSE "")
        project_dir == "/tmp/csharp_project_" \o ToString(n)
        run == SubprocessRun(env.run, timeout, env.spawn)
    IN  IF language \notin DOMAIN languages
        THEN Raised500("400: Unsupported language: " \o language)
        ELSE IF code = None THEN Raised500("TypeError")
        ELSE IF env.tmp # "ok" THEN Raised500("OSError")
        ELSE IF language \in {"cpp", "c", "rust"}
        THEN CompileThenRun(timeout, env, {temp_file_path}, "./program")
        ELSE IF language = "java"
        THEN CompileThenRun(timeout, env, {temp_file_path},
                            "/tmp/tmp" \o ToString(n) \o ".class")
        ELSE IF language = "csharp"
        THEN Finish(run, env.run, timeout, <<"run">>,
                    {temp_file_path, project_dir,
                     project_dir \o "/Program.csproj", project_dir \o "/Program.cs"},
                    env)
        ELSE Finish(run, env.run, timeout, <<"run">>, {temp_file_path}, env)

(***************************************************************************)
(* Inputs of the limiter operations.                                       *)
(***************************************************************************)
Identities == {"u1", "u2"}
LimitTypes == {"code_executions_per_minute"}
Tiers == {"default", "demo", "admin", "guest"}
AllKeys ==
    {KeyOf(i, lt) : i \in Identities \cup {"anonymous", "demo"},
                    lt \in LimitTypes \cup {"ai_requests_per_minute",
                                            "requests_per_hour"}}

VARIABLES
    now,        \* the value time.time() returns
    requests,   \* RateLimiter.requests: key -> deque of timestamps
    admitted,   \* history: key -> every timestamp is_allowed has admitted
    last,       \* the last limiter operation: its arguments and return value
    disk,       \* the paths that exist on the file system
    procs,      \* the child processes that are alive
    ncall,      \* number of engine calls and endpoint requests made so far
    resp,       \* the last engine call or endpoint request and its outcome
    metrics,    \* PerformanceMonitor.metrics: the request counters
    inflight,   \* the /generate requests suspended at the await of the AI call
    unswept,    \* the limiter's map and return value had no sweep ever run
    cache,      \* CacheService.cache: key -> value
    cache_ttl,  \* CacheService.cache_ttl: key -> instant of expiry
    written,    \* history: key -> the last set of the key, until delete or clear
    cache_hit_stats,  \* OptimizationService.cache_hit_stats
    earlier     \* history: the first call of /validate and its outcome

lvars == <<now, requests, admitted, last, unswept>>
evars == <<disk, procs, ncall, resp, metrics, inflight>>
cvars == <<cache, cache_ttl, written, cache_hit_stats>>
hvars == <<cvars, earlier>>
vars == <<now, requests, admitted, last, disk, procs, ncall, resp, metrics, inflight,
          unswept, cache, cache_ttl, written, cache_hit_stats, earlier>>

NoCall == [op |-> "none", key |-> "", limit_type |-> "", user_type |-> "",
           at |-> 0, ret |-> 0]

NoResp == [op |-> "none", status |-> "none"]

Init ==
    /\ now = 0
    /\ requests = <<>>
    /\ admitted = [k \in AllKeys |-> <<>>]
    /\ last = NoCall
    /\ disk = {}
    /\ procs = {}
    /\ ncall = 0
    /\ resp = NoResp
    /\ metrics = [requests_total |-> 0, requests_errors |-> 0]
    /\ inflight = <<>>
    /\ unswept = [requests |-> <<>>, ret |-> 0]
    /\ cache = <<>>
    /\ cache_ttl = <<>>
    /\ written = <<>>
    /\ cache_hit_stats = [hits |-> 0, misses |-> 0]
    /\ earlier = NoResp

\* an update made to a copy of the deque: the map keeps the deque it had
StoreLost(reqs, k, d) ==
    [x \in DOMAIN reqs \cup {k} |-> IF x \in DOMAIN reqs THEN reqs[x] ELSE d]

\* the map after self.requests[k] has been replaced by the deque d
Store(reqs, k, d) == [x \in DOMAIN reqs \cup {k} |-> IF x = k THEN d ELSE reqs[x]]

\* number of admissions recorded so far, over all keys
RECURSIVE SumLen(_, _)
SumLen(f, ks) ==
    IF ks = {} THEN 0
    ELSE LET k == CHOOSE x \in ks : TRUE IN Len(f[k]) + SumLen(f, ks \ {k})

NumAdmitted == SumLen(admitted, AllKeys)

\* an is_allowed that records the attempt before it compares with the ceiling
IsAllowedOpRecordsDenied(reqs, key, limit_type, user_type, t) ==
    LET limit == LimitOf(limit_type, user_type)
        window == WindowOf(limit_type)
        k == KeyOf(key, limit_type)
        request_times == Evict(Deque(reqs, k), t, window)
    IN  [ret |-> IF AtCeiling(Len(request_times), limit) THEN 0 ELSE 1,
         requests |-> Store(reqs, k, Append(request_times, t))]

\* the body of RateLimiter.is_allowed at time t on the map reqs: the value
\* returned (1 for True, 0 for False) and the map it leaves
IsAllowedOp(reqs, key, limit_type, user_type, t) ==
    LET limit == LimitOf(limit_type, user_type)
        window == WindowOf(limit_type)
        k == KeyOf(key, limit_type)
        request_times == Evict(Deque(reqs, k), t, window)
    IN  IF AtCeiling(Len(request_times), limit)
        THEN [ret |-> 0, requests |-> Store(reqs, k, request_times)]
        ELSE [ret |-> 1, requests |-> Store(reqs, k, Append(request_times, t))]

\* max(0, limit - len(request_times))
Max0(n) == IF n > 0 THEN n ELSE 0

\* a get_remaining_requests that counts the deque as it finds it
GetRemainingOpNoEvict(reqs, key, limit_type, user_type, t) ==
    LET limit == LimitOf(limit_type, user_type)
        k == KeyOf(key, limit_type)
        request_times == Deque(reqs, k)
    IN  [ret |-> Max0(limit - Len(request_times)),
         requests |-> Store(reqs, k, request_times)]

\* the body of RateLimiter.get_remaining_requests at time t on the map reqs
GetRemainingOp(reqs, key, limit_type, user_type, t) ==
    LET limit == LimitOf(limit_type, user_type)
        window == WindowOf(limit_type)
        k == KeyOf(key, limit_type)
        request_times == Evict(Deque(reqs, k), t, window)
    IN  [ret |-> Max0(limit - Len(request_times)),
         requests |-> Store(reqs, k, request_times)]

\* the history of admissions after a call on (key, limit_type) that returned ret
Admit(adm, key, limit_type, ret, t) ==
    IF ret = 1 THEN [adm EXCEPT ![KeyOf(key, limit_type)] = Append(@, t)] ELSE adm

\* RateLimiter.is_allowed(key, limit_type, user_type)
is_allowed(key, limit_type, user_type) ==
    /\ NumAdmitted < MaxAdmitted
    /\ LET r == IsAllowedOp(requests, key, limit_type, user_type, now)
       IN  /\ requests' = r.requests
           /\ admitted' = Admit(admitted, key, limit_type, r.ret, now)
           /\ last' = [op |-> "is_allowed", key |-> key, limit_type |-> limit_type,
                       user_type |-> user_type, at |-> now, ret |-> r.ret]
    /\ unswept' = IsAllowedOp(unswept.requests, key, limit_type, user_type, now)
    /\ UNCHANGED <<now, evars, hvars>>

\* RateLimiter.get_remaining_requests(key, limit_type, user_type)
get_remaining_requests(key, limit_type, user_type) ==
    /\ LET r == GetRemainingOp(requests, key, limit_type, user_type, now)
       IN  /\ requests' = r.requests
           /\ last' = [op |-> "get_remaining", key |-> key, limit_type |-> limit_type,
                       user_type |-> user_type, at |-> now, ret |-> r.ret]
    /\ unswept' = GetRemainingOp(unswept.requests, key, limit_type, user_type, now)
    /\ UNCHANGED <<now, admitted, evars, hvars>>

\* a pass that removes what is older than one minute
SweepMinute(reqs, t) ==
    LET swept == [k \in DOMAIN reqs |-> Evict(reqs[k], t, 60)]
        keys_to_remove == {k \in DOMAIN reqs : swept[k] = <<>>}
    IN  [k \in DOMAIN reqs \ keys_to_remove |-> swept[k]]

\* the map one pass of the loop body of cleanup_old_requests leaves at time t
Sweep(reqs, t) ==
    LET swept == [k \in DOMAIN reqs |-> Evict(reqs[k], t, 3600)]
        keys_to_remove == {k \in DOMAIN reqs : swept[k] = <<>>}
    IN  [k \in DOMAIN reqs \ keys_to_remove |-> swept[k]]

\* one pass of the loop body of RateLimiter.cleanup_old_requests
cleanup_old_requests ==
    /\ requests' = Sweep(requests, now)
    /\ last' = [NoCall EXCEPT !.op = "cleanup", !.at = now]
    /\ UNCHANGED <<now, admitted, unswept, evars, hvars>>

\* Nothing awaits or schedules rate_limiter.cleanup_old_requests(): main.py
\* builds the app and includes the routers, and creates no task for it
SweepStarted == FALSE

\* The service runs until instant t, a multiple of cleanup_interval.  A sweep
\* that has been started makes a pass every cleanup_interval seconds, so it
\* makes one at t; its earlier passes remove nothing the pass at t leaves.
Elapse(t) ==
    /\ t > now
    /\ now' = t
    /\ requests' = IF SweepStarted THEN Sweep(requests, t) ELSE requests
    /\ UNCHANGED <<admitted, last, unswept, evars, hvars>>

\* the clock moves on
Advance(d) ==
    /\ now + d <= MaxNow
    /\ now' = now + d
    /\ UNCHANGED <<requests, admitted, last, unswept, evars, hvars>>

(***************************************************************************)
(* Engine calls.                                                           *)
(***************************************************************************)
\* the file system and the process table after a call that ended as r
AfterCall(r) ==
    /\ disk' = disk \cup r.left
    /\ procs' = procs \cup {<<ncall + 1, p>> : p \in r.alive}
    /\ ncall' = ncall + 1

\* a handler that waits in subprocess.run without a timeout blocks the
\* event loop: nothing else is served
Serving == resp.status # "blocked"

\* CodeExecutor.run_code(language, code, stdin)
run_code(language, code, stdin, env) ==
    /\ Serving
    /\ LET r == run_code_result(language, code, stdin, env, ncall + 1)
       IN  /\ AfterCall(r)
           /\ resp' = [op |-> "run_code", language |-> language, code |-> code,
                       env |-> env] @@ r
    /\ UNCHANGED <<lvars, metrics, inflight, hvars>>

\* execute_code(request) of api/code.py
execute_code(language, code, input_data, timeout, env) ==
    /\ Serving
    /\ LET r == execute_code_result(language, code, input_data, timeout, env, ncall + 1)
       IN  /\ AfterCall(r)
           /\ resp' = [op |-> "execute_code", language |-> language, code |-> code,
                       env |-> env, timeout |-> timeout,
                       limiter |-> "skipped", validator |-> "skipped"] @@ r
    /\ UNCHANGED <<lvars, metrics, inflight, hvars>>

(***************************************************************************)
(* The handlers of api/ai_compiler.py.                                     *)
(***************************************************************************)
\* user.get("username", "default") if user else "default"; a user is a dict,
\* the empty dict (like None) is falsy
UserType(user) ==
    IF DOMAIN user # {} /\ "username" \in DOMAIN user THEN user.username ELSE "default"

\* user.get("username", "anonymous") if user else "anonymous"
UserId(user) ==
    IF DOMAIN user # {} /\ "username" \in DOMAIN user THEN user.username ELSE "anonymous"

\* a record_request that counts as errors the server errors only
record_request_5xx(m, status_code) ==
    [requests_total |-> m.requests_total + 1,
     requests_errors |-> m.requests_errors + (IF status_code >= 500 THEN 1 ELSE 0)]

\* PerformanceMonitor.record_request(response_time, status_code)
record_request(m, status_code) ==
    [requests_total |-> m.requests_total + 1,
     requests_errors |-> m.requests_errors + (IF status_code >= 400 THEN 1 ELSE 0)]

\* the limiter part of a handler: is_allowed, then get_remaining_requests when
\* is_allowed has returned False
Limited(user, limit_type) ==
    LET a == IsAllowedOp(requests, UserId(user), limit_type, UserType(user), now)
        g == GetRemainingOp(a.requests, UserId(user), limit_type, UserType(user), now)
    IN  /\ requests' = IF a.ret = 1 THEN a.requests ELSE g.requests
        /\ admitted' = Admit(admitted, UserId(user), limit_type, a.ret, now)
        /\ last' = [op |-> IF a.ret = 1 THEN "is_allowed" ELSE "get_remaining",
                    key |-> UserId(user), limit_type |-> limit_type,
                    user_type |-> UserType(user), at |-> now,
                    ret |-> IF a.ret = 1 THEN 1 ELSE g.ret]
        /\ LET ua == IsAllowedOp(unswept.requests, UserId(user), limit_type,
                                 UserType(user), now)
               ug == GetRemainingOp(ua.requests, UserId(user), limit_type,
                                    UserType(user), now)
           IN  unswept' = IF ua.ret = 1 THEN ua ELSE ug
        /\ UNCHANGED now

\* run_code_endpoint(request, user) as request number n, after is_allowed has
\* returned ret: the status recorded in the metrics, and the response with
\* what the handler did
RunOutcome(language, code, stdin, user, env, ret, n) ==
    LET v == validate_code(language, code)
        r == run_code_result(language, code, stdin, env, n)
        request == [op |-> "run_code_endpoint", user |-> user,
                    language |-> language, code |-> code]
        none == [steps |-> <<>>, created |-> {}, left |-> {}, alive |-> {}]
    IN  IF ret = 0
        THEN [recorded |-> 400,
              resp |-> request @@ none @@
                       [status |-> "raised", http |-> 429,
                        limiter |-> "denied", validator |-> "skipped"]]
        ELSE IF ~v.valid
        THEN [recorded |-> 400,
              resp |-> request @@ none @@
                       [status |-> "raised", http |-> 400,
                        limiter |-> "admitted", validator |-> "invalid"]]
        ELSE [recorded |-> 200,
              resp |-> request @@ r @@
                       [http |-> 200, limiter |-> "admitted", validator |-> "valid"]]

\* a /run handler that validates first and asks the limiter only for code
\* the validator has accepted
run_code_endpoint_validates_first(language, code, stdin, user, env) ==
    /\ Serving
    /\ IF validate_code(language, code).valid
       THEN Limited(user, "code_executions_per_minute")
       ELSE UNCHANGED lvars
    /\ LET a == IsAllowedOp(requests, UserId(user), "code_executions_per_minute",
                            UserType(user), now)
           o == RunOutcome(language, code, stdin, user, env,
                           IF validate_code(language, code).valid THEN a.ret ELSE 1,
                           ncall + 1)
       IN  /\ resp' = IF o.resp.limiter = "denied"
                      THEN o.resp @@ [remaining |-> 0] ELSE o.resp
           /\ metrics' = record_request(metrics, o.recorded)
           /\ AfterCall(o.resp)
    /\ UNCHANGED <<inflight, hvars>>

\* run_code_endpoint(request, user): the whole handler, which has no await
run_code_endpoint(language, code, stdin, user, env) ==
    /\ Serving
    /\ Limited(user, "code_executions_per_minute")
    /\ LET a == IsAllowedOp(requests, UserId(user), "code_executions_per_minute",
                            UserType(user), now)
           o == RunOutcome(language, code, stdin, user, env, a.ret, ncall + 1)
           \* detail: "... Remaining: {remaining}"
           g == GetRemainingOp(a.requests, UserId(user), "code_executions_per_minute",
                               UserType(user), now)
       IN  /\ resp' = IF a.ret = 0 THEN o.resp @@ [remaining |-> g.ret] ELSE o.resp
           /\ metrics' = record_request(metrics, o.recorded)
           /\ AfterCall(o.resp)
    /\ UNCHANGED <<inflight, hvars>>

\* generate_code_endpoint(request, user) up to its await of the AI call
generate_code_start(language, user) ==
    /\ Serving
    /\ Cardinality(DOMAIN inflight) < MaxInflight
    /\ Limited(user, "ai_requests_per_minute")
    /\ LET a == IsAllowedOp(requests, UserId(user), "ai_requests_per_minute",
                            UserType(user), now)
           request == [op |-> "generate_code_endpoint", user |-> user,
                       language |-> language, steps |-> <<>>]
           \* detail: "... Remaining: {remaining}"
           g == GetRemainingOp(a.requests, UserId(user), "ai_requests_per_minute",
                               UserType(user), now)
       IN  IF a.ret = 0
           THEN /\ resp' = request @@ [status |-> "raised", http |-> 429,
                                       limiter |-> "denied", remaining |-> g.ret]
                /\ metrics' = record_request(metrics, 429)
                /\ UNCHANGED inflight
           ELSE IF Lower(language) \notin DOMAIN supported_languages
           THEN /\ resp' = request @@ [status |-> "raised", http |-> 400,
                                       limiter |-> "admitted"]
                /\ metrics' = record_request(metrics, 429)
                /\ UNCHANGED inflight
           ELSE /\ resp' = request @@ [status |-> "suspended", limiter |-> "admitted"]
                /\ LET slot == CHOOSE i \in 1..MaxInflight :
                                   /\ i \notin DOMAIN inflight
                                   /\ \A j \in 1..(i - 1) : j \in DOMAIN inflight
                   IN  inflight' = [i \in DOMAIN inflight \cup {slot} |->
                                       IF i = slot
                                       THEN [user |-> user, language |-> language]
                                       ELSE inflight[i]]
                /\ UNCHANGED metrics
    /\ ncall' = ncall + 1
    /\ UNCHANGED <<disk, procs, hvars>>

\* generate_code_endpoint after the await: the AI call has returned (ok) or
\* has raised
generate_code_finish(g, ok) ==
    /\ Serving
    /\ g \in DOMAIN inflight
    /\ inflight' = [i \in DOMAIN inflight \ {g} |-> inflight[i]]
    /\ resp' = [op |-> "generate_code_endpoint", user |-> inflight[g].user,
                language |-> inflight[g].language, steps |-> <<>>, limiter |-> "admitted",
                status |-> IF ok THEN "returned" ELSE "raised",
                http |-> IF ok THEN 200 ELSE 500]
    /\ metrics' = record_request(metrics, IF ok THEN 200 ELSE 500)
    /\ UNCHANGED <<lvars, disk, procs, ncall, hvars>>

\* a /validate handler that asks the limiter first, as /run does, and
\* reports a denied request as invalid
validate_code_endpoint_limited(language, code) ==
    /\ Serving
    /\ LET a == IsAllowedOp(requests, "anonymous", "code_executions_per_minute",
                            "default", now)
           result == IF a.ret = 1 THEN validate_code(language, code)
                     ELSE [valid |-> FALSE, error |-> "Rate limit exceeded"]
       IN  /\ requests' = a.requests
           /\ resp' = [op |-> "validate_code_endpoint", language |-> language,
                       code |-> code, status |-> "returned", http |-> 200,
                       valid |-> result.valid, error |-> result.error,
                       validated_at |-> now, steps |-> <<>>]
           /\ earlier' = IF earlier = NoResp THEN resp' ELSE earlier
    /\ UNCHANGED <<now, admitted, last, unswept, disk, procs, ncall, metrics,
                   inflight, cvars>>

\* validate_code_endpoint(request): the whole handler
validate_code_endpoint(language, code) ==
    /\ Serving
    /\ LET result == validate_code(language, code)
       IN  /\ resp' = [op |-> "validate_code_endpoint", language |-> language,
                       code |-> code, status |-> "returned", http |-> 200,
                       valid |-> result.valid, error |-> result.error,
                       validated_at |-> now, steps |-> <<>>]
           /\ earlier' = IF earlier = NoResp THEN resp' ELSE earlier
    /\ UNCHANGED <<lvars, disk, procs, ncall, metrics, inflight, cvars>>

NextLimiter ==
    \/ \E key \in Identities, lt \in LimitTypes, ut \in Tiers : is_allowed(key, lt, ut)
    \/ \E key \in Identities, lt \in LimitTypes, ut \in Tiers :
           get_remaining_requests(key, lt, ut)
    \/ cleanup_old_requests
    \/ \E d \in Steps : Advance(d)

SpecLimiter == Init /\ [][NextLimiter]_vars

\* the limiter driven with one fixed tier per identity
TierOf == [u1 |-> "demo", u2 |-> "guest"]

NextFixedTier ==
    \/ \E key \in Identities, lt \in LimitTypes : is_allowed(key, lt, TierOf[key])
    \/ \E key \in Identities, lt \in LimitTypes :
           get_remaining_requests(key, lt, TierOf[key])
    \/ cleanup_old_requests
    \/ \E d \in Steps : Advance(d)

SpecFixedTier == Init /\ [][NextFixedTier]_vars

(***************************************************************************)
(* Every way to have code executed, over every input and environment: the *)
(* engine called directly, and the two handlers that execute code.        *)
(***************************************************************************)
Languages == {"python", "Python", "java", "cpp", "csharp", "cobol"}
Codes == {"print('hi')", None}
\* request.timeout: None, the default of an omitted field, a caller's hour
Timeouts == {{}, {default_timeout}, {3600}}
NominalEnv == [tmp |-> "ok", spawn |-> "ok", compile |-> "exit0", run |-> "exit0",
               size |-> "short"]
\* one engine-side failure at a time, and every behaviour of the two steps
Envs ==
    {[NominalEnv EXCEPT !.tmp = t] : t \in {"mkdtemp", "open"}}
    \cup {[NominalEnv EXCEPT !.spawn = "fail"]}
    \cup {[NominalEnv EXCEPT !.compile = c, !.run = r] : c \in Outcomes, r \in Outcomes}

Users == {<<>>, [username |-> "demo"]}
EndpointLanguages == {"python", "cobol"}
EndpointCodes == {"print('hi')", "import os", "X = EVAL(Y)", " \n", ""}

NextEngine ==
    /\ ncall < MaxEngineCalls
    /\ \/ \E language \in Languages \cup {None}, code \in Codes, env \in Envs :
              run_code(language, code, None, env)
       \/ \E language \in Languages, code \in Codes, timeout \in Timeouts,
                env \in Envs :
              execute_code(language, code, None, timeout, env)
       \/ \E language \in EndpointLanguages, code \in EndpointCodes, user \in Users :
              run_code_endpoint(language, code, None, user, NominalEnv)

SpecEngine == Init /\ [][NextEngine]_vars

(***************************************************************************)
(* One engine call, with programs that write little and programs that     *)
(* write more than max_output_size.  What a call returns does not depend  *)
(* on the calls before it.                                                 *)
(***************************************************************************)
StreamEnvs ==
    {[NominalEnv EXCEPT !.size = z, !.run = r] :
         z \in {"short", "long"}, r \in Outcomes}

NextStreams ==
    /\ resp = NoResp
    /\ \/ \E language \in Languages, code \in Codes, env \in StreamEnvs :
              run_code(language, code, None, env)
       \/ \E language \in Languages, code \in Codes, timeout \in Timeouts,
                env \in StreamEnvs :
              execute_code(language, code, None, timeout, env)

SpecStreams == Init /\ [][NextStreams]_vars

(***************************************************************************)
(* The endpoints, served concurrently on one event loop.                   *)
(***************************************************************************)
ApiLanguages == {"python", "cobol"}
ApiCodes == {"print('hi')", "Import OS"}
DemoUser == [username |-> "demo"]
\* between two requests the clock moves past one whole window, or not at all
ApiSteps == {61}

\* the timestamps n admissions at time 0 leave
RECURSIVE Zeros(_)
Zeros(n) == IF n = 0 THEN <<>> ELSE Append(Zeros(n - 1), 0)

\* The service at time 0, fresh or after user demo has had n /run requests
\* of valid code served, one short of the demo tier's ceiling.
InitApi ==
    \E n \in {0, LimitOf("code_executions_per_minute", "demo") - 1} :
        LET k == KeyOf("demo", "code_executions_per_minute")
        IN  /\ now = 0
            /\ requests = IF n = 0 THEN <<>> ELSE (k :> Zeros(n))
            /\ admitted = [x \in AllKeys |-> IF x = k THEN Zeros(n) ELSE <<>>]
            /\ last = IF n = 0 THEN NoCall
                      ELSE [op |-> "is_allowed", key |-> "demo",
                            limit_type |-> "code_executions_per_minute",
                            user_type |-> "demo", at |-> 0, ret |-> 1]
            /\ disk = {}
            /\ procs = {}
            /\ ncall = 0
            /\ resp = IF n = 0 THEN NoResp
                      ELSE RunOutcome("python", "print('hi')", None, DemoUser,
                                      NominalEnv, 1, 0).resp
            /\ metrics = [requests_total |-> n, requests_errors |-> 0]
            /\ inflight = <<>>
            /\ unswept = [requests |-> IF n = 0 THEN <<>> ELSE (k :> Zeros(n)),
                          ret |-> IF n = 0 THEN 0 ELSE 1]
            /\ cache = <<>>
            /\ cache_ttl = <<>>
            /\ written = <<>>
            /\ cache_hit_stats = [hits |-> 0, misses |-> 0]
            /\ earlier = NoResp

NextApi ==
    \/ /\ ncall < MaxRequests
       /\ \/ \E language \in ApiLanguages, code \in ApiCodes, user \in Users :
                 run_code_endpoint(language, code, None, user, NominalEnv)
          \/ \E language \in ApiLanguages, user \in Users :
                 generate_code_start(language, user)
    \/ \E g \in DOMAIN inflight, ok \in BOOLEAN : generate_code_finish(g, ok)
    \/ \E d \in ApiSteps : Advance(d)

SpecApi == InitApi /\ [][NextApi]_vars

(***************************************************************************)
(* The service over more than an hour: requests, and time passing in       *)
(* multiples of the sweep's period.                                        *)
(***************************************************************************)
ServiceInstants == {cleanup_interval, 3600, 3600 + cleanup_interval,
                    3600 + 2 * cleanup_interval}

NextService ==
    \/ /\ ncall < MaxRequests
       /\ \E language \in ApiLanguages, code \in ApiCodes, user \in Users :
              run_code_endpoint(language, code, None, user, NominalEnv)
    \/ \E t \in ServiceInstants : Elapse(t)

SpecService == Init /\ [][NextService]_vars

(***************************************************************************)
(* The limiter with a per-minute and a per-hour limit type, called at the  *)
(* instants around the two window lengths.                                 *)
(***************************************************************************)
HourLimitTypes == {"code_executions_per_minute", "requests_per_hour"}
HourInstants == {1, 61, 3600, 3601}

NextHour ==
    \/ \E lt \in HourLimitTypes : is_allowed("u1", lt, "demo")
    \/ \E lt \in HourLimitTypes : get_remaining_requests("u1", lt, "demo")
    \/ \E t \in HourInstants : Elapse(t)

SpecHour == Init /\ [][NextHour]_vars

(***************************************************************************)
(* Properties of the rate limiter.                                         *)
(***************************************************************************)
\* the admissions of key k whose timestamp lies in the closed interval [lo, hi]
AdmittedIn(k, lo, hi) ==
    Cardinality({j \in 1..Len(admitted[k]) : lo <= admitted[k][j] /\ admitted[k][j] <= hi})

\* the admissions of the last call's key that were inside the window when
\* the call was made, the call's own admission excluded
PriorInWindow ==
    LET k == KeyOf(last.key, last.limit_type)
    IN  AdmittedIn(k, last.at - WindowOf(last.limit_type), last.at) - last.ret

\* C1: an is_allowed call returns true when fewer than the ceiling's worth of
\* admissions of its key lie within the window before it (so the first L
\* calls of a window are admitted, and so is a call made more than W seconds
\* after L admissions), and returns false when L or more lie within it (so
\* the (L+1)-th call of the window is denied).
C1_CeilingThenDenyThenReadmit ==
    last.op = "is_allowed" =>
        LET L == LimitOf(last.limit_type, last.user_type)
        IN  /\ PriorInWindow < L => last.ret = 1
            /\ PriorInWindow >= L => last.ret = 0

\* the demo tier's 5 admissions have all left the window and the 6th call on
\* the key is admitted
C1_Witness ==
    /\ last.op = "is_allowed" /\ last.ret = 1 /\ last.user_type = "demo"
    /\ LET k == KeyOf(last.key, last.limit_type)
       IN  /\ Len(admitted[k]) = LimitOf(last.limit_type, "demo") + 1
           /\ \A j \in 1..LimitOf(last.limit_type, "demo") :
                  admitted[k][j] < last.at - WindowOf(last.limit_type)

\* C2: when every call on a key is made under one fixed tier (SpecFixedTier),
\* no closed time interval of one window length holds more admissions of the
\* key than that tier's ceiling.
C2_WindowNeverOverCeiling ==
    \A id \in Identities, lt \in LimitTypes :
        LET k == KeyOf(id, lt)
        IN  \A i \in 1..Len(admitted[k]) :
                AdmittedIn(k, admitted[k][i], admitted[k][i] + WindowOf(lt))
                    <= LimitOf(lt, TierOf[id])

\* a key at its ceiling whose oldest entry is exactly one window old: the
\* call made at that instant has been denied
C2_Witness ==
    /\ last.op = "is_allowed" /\ last.ret = 0
    /\ LET k == KeyOf(last.key, last.limit_type)
       IN  /\ Len(requests[k]) = LimitOf(last.limit_type, last.user_type)
           /\ requests[k][1] = last.at - WindowOf(last.limit_type)

C4_LimiterThenValidatorThenEngine ==
    (resp.op \in {"run_code_endpoint", "execute_code"} /\ resp.steps # <<>>)
        => (resp.limiter = "admitted" /\ resp.validator = "valid")

\* the languages each engine compiles before it runs the program
CompiledLanguages == {"java", "cpp", "c", "rust"}

\* the last engine call got as far as starting its program: the language is
\* supported, the source file was written and the executable can be started
ReachedExecution ==
    /\ resp.op \in {"run_code", "execute_code"}
    /\ resp.code # None /\ resp.language # None
    /\ resp.env.tmp = "ok" /\ resp.env.spawn = "ok"
    /\ resp.op = "run_code" => Lower(resp.language) \in DOMAIN supported_languages
    /\ resp.op = "execute_code" => resp.language \in DOMAIN languages

\* a step of the last engine call does not terminate by itself
StepHangs ==
    IF resp.language \in CompiledLanguages
    THEN resp.env.compile = "hang"
         \/ (resp.env.compile = "exit0" /\ resp.env.run = "hang")
    ELSE resp.env.run = "hang"

\* C5: an engine call whose program is still running when the timeout
\* expires returns a failure whose error is the timeout outcome, and no
\* child process of the call is alive when it returns.
C5_TimeoutKillsChild ==
    /\ (ReachedExecution /\ resp.op = "run_code" /\ StepHangs)
           => /\ resp.status = "returned" /\ resp.success = FALSE
              /\ resp.error = "Execution timed out"
              /\ resp.alive = {}
    /\ (ReachedExecution /\ resp.op = "execute_code" /\ StepHangs
           /\ resp.timeout # {})
           => /\ resp.status = "returned"
              /\ resp.error = "Execution timeout"
              /\ resp.alive = {}

\* C6: when an engine call or a handler is over (it has returned or raised),
\* no file or directory it created exists.
C6_NoFileRemains ==
    (resp.op # "none" /\ resp.status \in {"returned", "raised"})
        => \A f \in resp.created : f \notin disk

\* C7: for a language that is compiled, an engine call that gets to execute
\* starts with a compile step, and runs the program if and only if the
\* compiler has returned 0.
C7_CompileThenRunIffZero ==
    (ReachedExecution /\ resp.language \in CompiledLanguages
       /\ resp.status = "returned")
        => /\ resp.steps # <<>>
           /\ resp.steps[1] = "compile"
           /\ (\E i \in 1..Len(resp.steps) : resp.steps[i] = "run")
                  <=> (resp.env.compile = "exit0")

C9_SuccessIffExitZero ==
    (ReachedExecution /\ resp.op = "run_code"
       /\ resp.language \notin CompiledLanguages /\ resp.env.run # "hang")
        => /\ resp.success <=> (resp.env.run = "exit0")
           /\ resp.env.run = "exit0" => resp.output = "<stdout>"
           /\ resp.env.run # "exit0" => resp.error = "<stderr>"

\* an engine-side operation of the last run_code call has failed, or the
\* call was given no source text
EngineSideFailure ==
    resp.code = None \/ resp.env.tmp # "ok" \/ resp.env.spawn # "ok"

AdmittedSince(k, t, window) ==
    LET InWindow(x) == x >= t - window
    IN  SelectSeq(admitted[k], InWindow)

\* C11: when is_allowed returns false, the key's sequence after the call is
\* the sequence of the admitted timestamps that are still inside the window,
\* with nothing appended for the denied attempt.
C11_DeniedCallIsNotRecorded ==
    (last.op = "is_allowed" /\ last.ret = 0)
        => LET k == KeyOf(last.key, last.limit_type)
           IN  /\ k \in DOMAIN requests
               /\ requests[k] = AdmittedSince(k, last.at, WindowOf(last.limit_type))

\* a call is denied at an instant later than every admission of its key:
\* the instant of the denied call is not in the key's sequence
C11_Witness ==
    /\ last.op = "is_allowed" /\ last.ret = 0 /\ last.at > 0
    /\ LET k == KeyOf(last.key, last.limit_type)
       IN  /\ Len(requests[k]) = LimitOf(last.limit_type, last.user_type)
           /\ \A j \in 1..Len(requests[k]) : requests[k][j] < last.at

\* C12: a get_remaining_requests call leaves the limiter's map as it was:
\* the same keys, and for every key the same sequence of timestamps.
C12_GetRemainingDoesNotMutate ==
    [][(\E key \in Identities, lt \in LimitTypes, ut \in Tiers :
            get_remaining_requests(key, lt, ut))
         => requests' = requests]_vars

\* C13: the counter is kept per (identity, limit type, tier).  After the
\* only admission an identity has had, made under one tier, a
\* get_remaining_requests call for the same identity and limit type under
\* another tier reports that tier's whole ceiling: the admission is not
\* counted against it.
C13_CounterIsPerTier ==
    [][\A key \in Identities, lt \in LimitTypes, ut \in Tiers :
          (/\ last.op = "is_allowed" /\ last.ret = 1
           /\ last.key = key /\ last.limit_type = lt /\ last.user_type # ut
           /\ Len(admitted[KeyOf(key, lt)]) = 1
           /\ get_remaining_requests(key, lt, ut))
            => last'.ret = LimitOf(lt, ut)]_vars


\* C14: the sweep runs every cleanup_interval seconds while the service
\* runs, so a key whose timestamps are all older than 3600 seconds is deleted
\* by the next pass: every key in the map has a timestamp that is not older
\* than 3600 seconds plus one period of the sweep.
C14_StaleKeysAreSwept ==
    \A k \in DOMAIN requests :
        /\ requests[k] # <<>>
        /\ now - requests[k][Len(requests[k])] <= 3600 + cleanup_interval

\* C15: immediately after an is_allowed or get_remaining_requests call on a
\* key, no timestamp of the key's sequence is older than the call's instant
\* minus the window, and the sequence is in non-decreasing order.
C15_SequenceWithinWindowAndOrdered ==
    last.op \in {"is_allowed", "get_remaining"}
        => LET k == KeyOf(last.key, last.limit_type)
               q == requests[k]
           IN  /\ \A j \in 1..Len(q) :
                      /\ q[j] >= last.at - WindowOf(last.limit_type)
                      /\ q[j] <= last.at
               /\ \A i, j \in 1..Len(q) : i < j => q[i] <= q[j]

\* a call has evicted two timestamps that had left the window and has kept
\* one that was still inside it
C15_Witness ==
    /\ last.op \in {"is_allowed", "get_remaining"}
    /\ LET k == KeyOf(last.key, last.limit_type)
           old == {j \in 1..Len(admitted[k]) :
                      admitted[k][j] < last.at - WindowOf(last.limit_type)}
       IN  /\ Cardinality(old) >= 2
           /\ \E j \in 1..Len(requests[k]) : requests[k][j] < last.at

\* the ceiling the configuration gives a tier for one of the configured
\* limit types: the tier's own entry, the default tier's for any other name
TierCeiling(limit_type, tier) ==
    IF tier \in {"admin", "demo"} THEN user_limits[tier][limit_type]
    ELSE default_limits[limit_type]

\* C16: is_allowed admits exactly while fewer admissions than the tier's
\* configured ceiling lie in the window, and get_remaining_requests returns
\* that ceiling minus the admissions in the window (at least 0); a tier name
\* that is not configured gets the default tier's ceiling.
C16_CeilingOfTierOrDefault ==
    LET k == KeyOf(last.key, last.limit_type)
        L == TierCeiling(last.limit_type, last.user_type)
        W == WindowOf(last.limit_type)
    IN  /\ last.op = "is_allowed" => (last.ret = 1 <=> PriorInWindow < L)
        /\ last.op = "get_remaining"
              => last.ret = Max0(L - Len(AdmittedSince(k, last.at, W)))

\* tier "guest" is not configured: with 6 admissions of the key in the
\* window, get_remaining_requests has returned the default ceiling less 6
C16_Witness ==
    /\ last.op = "get_remaining" /\ last.user_type = "guest"
    /\ Len(requests[KeyOf(last.key, last.limit_type)]) = 6
    /\ last.ret = default_limits[last.limit_type] - 6

\* s ends with suffix
EndsWith(s, suffix) ==
    /\ Len(s) >= Len(suffix)
    /\ SubSeq(s, Len(s) - Len(suffix) + 1, Len(s)) = suffix

\* C17: after an is_allowed or a get_remaining_requests call, the key's
\* sequence holds exactly the admitted timestamps of the last 60 seconds when
\* the limit type is a per-minute one, and of the last 3600 seconds when it
\* is a per-hour one.
C17_WindowByNameOfLimitType ==
    last.op \in {"is_allowed", "get_remaining"}
        => LET k == KeyOf(last.key, last.limit_type)
           IN  /\ EndsWith(last.limit_type, "_per_minute")
                      => requests[k] = AdmittedSince(k, last.at, 60)
               /\ EndsWith(last.limit_type, "_per_hour")
                      => requests[k] = AdmittedSince(k, last.at, 3600)
               /\ EndsWith(last.limit_type, "_per_minute")
                      \/ EndsWith(last.limit_type, "_per_hour")

\* a call on the per-hour key at 3601 has evicted the admission made at 0
\* and has kept the one made at 61, which a per-minute window would not
C17_Witness ==
    /\ last.op = "get_remaining" /\ last.limit_type = "requests_per_hour"
    /\ last.at = 3601
    /\ LET k == KeyOf(last.key, last.limit_type)
       IN  /\ admitted[k] # <<>> /\ admitted[k][1] = 0
           /\ requests[k] # <<>> /\ requests[k][1] = 61

(***************************************************************************)
(* Limits on what an execution may take and return.                        *)
(***************************************************************************)
\* C18: the wait for a child process is always bounded, by 10 seconds when
\* the caller supplies no timeout, and by no more than the engine's ceiling
\* (max_execution_time) whatever the caller supplies.
C18_TimeoutWithinHardCeiling ==
    (resp.op = "execute_code" /\ resp.steps # <<>>)
        => /\ resp.timeout # {}
           /\ \A t \in resp.timeout : t <= max_execution_time

\* the run step of the last /api/code/execute call has ended by itself, and
\* the handler has returned its streams
RunCompleted ==
    /\ resp.op = "execute_code" /\ resp.status = "returned"
    /\ resp.steps # <<>> /\ resp.steps[Len(resp.steps)] = "run"
    /\ resp.env.run # "hang"
    /\ resp.exit_code = ReturnCode(resp.env.run)

\* `returned` is `stream` capped at max_output_size: the stream itself, or
\* its first max_output_size characters followed by the marker
Capped(returned, stream, marker) ==
    IF Len(stream) <= max_output_size
    THEN returned = stream
    ELSE returned = SubSeq(stream, 1, max_output_size) \o marker

\* C19: in every result an engine returns, each of the two streams is capped
\* by itself: a stream that is not longer than max_output_size is returned
\* as it is, a longer one as its first max_output_size characters followed by
\* the marker, so that no returned stream is longer than cap plus marker.
C19_StreamsAreCapped ==
    /\ RunCompleted
          => /\ Capped(resp.output, Stdout(resp.env),
                       "\n[Output truncated - too large]")
             /\ resp.env.run = "exit1"
                    => Capped(resp.error, Stderr(resp.env),
                              "\n[Error output truncated - too large]")
    /\ (resp.op = "run_code" /\ resp.status = "returned")
          => /\ Len(resp.output)
                    <= max_output_size + Len("\n[Output truncated - too large]")
             /\ Len(resp.error)
                    <= max_output_size + Len("\n[Error output truncated - too large]")

\* C20: the result returned for an execution that was ended by the timeout
\* carries what the process had written to stdout before it was killed.
C20_TimeoutKeepsPartialOutput ==
    (/\ resp.op = "execute_code" /\ resp.status = "returned"
     /\ resp.steps # <<>> /\ resp.steps[Len(resp.steps)] = "run"
     /\ resp.error = "Execution timeout")
        => resp.output = Stdout(resp.env)

(***************************************************************************)
(* The outcome classes of a result of CodeExecutor.run_code.               *)
(***************************************************************************)
OutcomeClasses ==
    {"clean_success", "compile_error", "runtime_error", "timeout", "internal_error"}

\* the outcome classes a result r of run_code falls in, by the branch of the
\* code that has built it: success = True; a program that has ended with a
\* non-zero code; the TimeoutExpired branch; one of the two except Exception
\* branches.  No branch builds a compile-error result: the command of a
\* compiled language is started as one process.
OutcomeClassesOf(r) ==
    {c \in OutcomeClasses :
        \/ c = "clean_success" /\ r.success
        \/ c = "runtime_error" /\ ~r.success /\ r.steps # <<>> /\ r.alive = {}
              /\ r.error \notin {"Execution timed out", "Execution failed",
                                 "Execution error"}
        \/ c = "timeout" /\ ~r.success /\ r.error = "Execution timed out"
        \/ c = "internal_error" /\ ~r.success
              /\ r.error \in {"Execution failed", "Execution error"}}

\* C21: every result CodeExecutor.run_code returns falls in exactly one of
\* the outcome classes clean success, compile error, runtime error, timeout,
\* internal error: never in two of them, never in none.
C21_ExactlyOneOutcomeClass ==
    (resp.op = "run_code" /\ resp.status = "returned")
        => Cardinality(OutcomeClassesOf(resp)) = 1

(***************************************************************************)
(* The validator alone, over every declared language.                      *)
(***************************************************************************)
ValidatorLanguages == DOMAIN supported_languages
ValidatorCodes == {"print('hi')", "import os", "X = EVAL(Y)", "importos", "", " \n\t"}

NextValidator ==
    \E language \in ValidatorLanguages, code \in ValidatorCodes :
        validate_code_endpoint(language, code)

SpecValidator == Init /\ [][NextValidator]_vars

\* a compares equal to b when the case of the letters is ignored
EqualIgnoringCase(a, b) ==
    /\ Len(a) = Len(b)
    /\ \A i \in 1..Len(a) : LowerChar(SubSeq(a, i, i)) = LowerChar(SubSeq(b, i, i))

\* the source contains a substring of the denylist, compared case-insensitively
HasDenylistSubstring(code) ==
    \E p \in 1..Len(dangerous_patterns) :
        \E i \in 1..(Len(code) - Len(dangerous_patterns[p]) + 1) :
            EqualIgnoringCase(SubSeq(code, i, i + Len(dangerous_patterns[p]) - 1),
                              dangerous_patterns[p])

\* the source is empty or holds nothing but whitespace
EmptyOrWhitespace(code) ==
    code = "" \/ \A i \in 1..Len(code) : SubSeq(code, i, i) \in Whitespace

\* C22: for every declared language, validate returns valid = false exactly
\* when the source is empty or whitespace-only or contains a denylist
\* substring under case-insensitive comparison, and valid = true for every
\* other source; the verdict is the same for every language.
C22_InvalidIffBlankOrDenylisted ==
    /\ resp.op = "validate_code_endpoint"
           => (~resp.valid <=> (EmptyOrWhitespace(resp.code)
                                   \/ HasDenylistSubstring(resp.code)))
    /\ (resp.op = "validate_code_endpoint" /\ earlier.op = "validate_code_endpoint"
          /\ earlier.code = resp.code)
           => earlier.valid = resp.valid

\* a source with a denylist substring in another case has been rejected for
\* one language, after a source of whitespace had been rejected for another
C22_Witness ==
    /\ resp.op = "validate_code_endpoint"
    /\ resp.code = "X = EVAL(Y)" /\ resp.language = "java" /\ ~resp.valid
    /\ earlier.op = "validate_code_endpoint"
    /\ earlier.code = " \n\t" /\ earlier.language = "python" /\ ~earlier.valid

(***************************************************************************)
(* The validator among the other operations of the service.                *)
(***************************************************************************)
PureCodes == {"print('hi')", "Import OS", ""}

NextPure ==
    \/ \E language \in ApiLanguages, code \in PureCodes :
           validate_code_endpoint(language, code)
    \/ /\ ncall <= MaxEngineCalls
       /\ \E language \in ApiLanguages, code \in ApiCodes, user \in Users :
              run_code_endpoint(language, code, None, user, NominalEnv)
    \/ \E d \in ApiSteps : Advance(d)

SpecPure == Init /\ [][NextPure]_vars

default_ttl == 300

\* the map f without the keys ks
Without(f, ks) == [k \in DOMAIN f \ ks |-> f[k]]

\* the map f after f[k] = v
With(f, k, v) == [x \in DOMAIN f \cup {k} |-> IF x = k THEN v ELSE f[x]]

\* a get that never looks at the expiry
CacheGetNoExpiry(c, ttls, key, t) ==
    IF key \in DOMAIN c
    THEN [ret |-> c[key], cache |-> c, cache_ttl |-> ttls, expired |-> FALSE]
    ELSE [ret |-> None, cache |-> c, cache_ttl |-> ttls, expired |-> FALSE]

\* the body of CacheService.get(key) at time t on the maps c and ttls: the
\* value returned and the maps it leaves
CacheGet(c, ttls, key, t) ==
    IF key \in DOMAIN c
    THEN IF key \in DOMAIN ttls /\ t > ttls[key]
         THEN [ret |-> None, cache |-> Without(c, {key}),
               cache_ttl |-> Without(ttls, {key}), expired |-> TRUE]
         ELSE [ret |-> c[key], cache |-> c, cache_ttl |-> ttls, expired |-> FALSE]
    ELSE [ret |-> None, cache |-> c, cache_ttl |-> ttls, expired |-> FALSE]

\* ttl = self.default_ttl if ttl is None; an Optional[int] is the set of its values
TtlOf(ttl) == IF ttl = {} THEN default_ttl ELSE CHOOSE x \in ttl : TRUE

\* the body of CacheService.set(key, value, ttl) at time t
CacheSet(c, ttls, key, value, ttl, t) ==
    [cache |-> With(c, key, value), cache_ttl |-> With(ttls, key, t + TtlOf(ttl))]

\* a delete that pops the value and leaves the expiry
CacheDeleteValueOnly(c, ttls, key) ==
    [cache |-> Without(c, {key}), cache_ttl |-> ttls]

\* the body of CacheService.delete(key): pop(key, None) on both maps
CacheDelete(c, ttls, key) ==
    [cache |-> Without(c, {key}), cache_ttl |-> Without(ttls, {key})]

\* one pass of the loop body of CacheService.cleanup_expired at time t.  The
\* del of a value that does not exist raises KeyError, which ends the pass.
CleanupExpired(c, ttls, t) ==
    LET expired_keys == {k \in DOMAIN ttls : t > ttls[k]}
    IN  IF expired_keys \subseteq DOMAIN c
        THEN [cache |-> Without(c, expired_keys),
              cache_ttl |-> Without(ttls, expired_keys), removed |-> expired_keys]
        ELSE [cache |-> c, cache_ttl |-> ttls, removed |-> {}]

\* what a cache operation leaves of the engine's last response
CacheResp(op, key, ret) ==
    [op |-> op, key |-> key, ret |-> ret, at |-> now, status |-> "returned",
     steps |-> <<>>]

\* CacheService.get(key)
cache_get(key) ==
    /\ LET r == CacheGet(cache, cache_ttl, key, now)
       IN  /\ cache' = r.cache
           /\ cache_ttl' = r.cache_ttl
           /\ resp' = CacheResp("get", key, r.ret) @@ [expired |-> r.expired]
    /\ UNCHANGED <<lvars, disk, procs, ncall, metrics, inflight, written,
                   cache_hit_stats, earlier>>

\* CacheService.set(key, value, ttl)
cache_set(key, value, ttl) ==
    /\ LET r == CacheSet(cache, cache_ttl, key, value, ttl, now)
       IN  /\ cache' = r.cache
           /\ cache_ttl' = r.cache_ttl
    /\ written' = With(written, key, [value |-> value, at |-> now, ttl |-> TtlOf(ttl)])
    /\ resp' = CacheResp("set", key, None)
    /\ UNCHANGED <<lvars, disk, procs, ncall, metrics, inflight, cache_hit_stats,
                   earlier>>

\* CacheService.delete(key)
cache_delete(key) ==
    /\ LET r == CacheDelete(cache, cache_ttl, key)
       IN  /\ cache' = r.cache
           /\ cache_ttl' = r.cache_ttl
    /\ written' = Without(written, {key})
    /\ resp' = CacheResp("delete", key, None)
    /\ UNCHANGED <<lvars, disk, procs, ncall, metrics, inflight, cache_hit_stats,
                   earlier>>

\* CacheService.clear()
cache_clear ==
    /\ cache' = <<>>
    /\ cache_ttl' = <<>>
    /\ written' = <<>>
    /\ resp' = CacheResp("clear", None, None)
    /\ UNCHANGED <<lvars, disk, procs, ncall, metrics, inflight, cache_hit_stats,
                   earlier>>

\* one pass of the loop body of CacheService.cleanup_expired
cleanup_expired ==
    /\ LET r == CleanupExpired(cache, cache_ttl, now)
       IN  /\ cache' = r.cache
           /\ cache_ttl' = r.cache_ttl
           /\ resp' = CacheResp("cleanup_expired", None, None) @@ [removed |-> r.removed]
    /\ UNCHANGED <<lvars, disk, procs, ncall, metrics, inflight, written,
                   cache_hit_stats, earlier>>

CacheKeys == {"k1", "k2"}
CacheValues == {"'a'", "'b'"}
\* ttl omitted, and a ttl of one clock step
CacheTtls == {{}, {30}}

NextCache ==
    \/ \E key \in CacheKeys : cache_get(key)
    \/ \E key \in CacheKeys, value \in CacheValues, ttl \in CacheTtls :
           cache_set(key, value, ttl)
    \/ \E key \in CacheKeys : cache_delete(key)
    \/ cache_clear
    \/ cleanup_expired
    \/ \E d \in Steps : Advance(d)

SpecCache == Init /\ [][NextCache]_vars

\* C29: after any sequence of set, get, delete, clear and expired-entry
\* cleanup operations of CacheService, the value map and the expiry map hold
\* exactly the same keys.
C29_SameKeysInBothMaps == DOMAIN cache = DOMAIN cache_ttl

\* a cleanup pass has removed an expired entry and has left a live one
C29_Witness ==
    /\ resp.op = "cleanup_expired" /\ resp.removed # {}
    /\ DOMAIN cache # {} /\ DOMAIN cache = DOMAIN cache_ttl

\* the last set of key k has not been followed by delete(k) or clear(), and
\* at instant t the clock has not passed the instant of its expiry
LiveAt(k, t) == k \in DOMAIN written /\ t <= written[k].at + written[k].ttl

\* C24: get(k) returns the value of the most recent set(k, v, ttl) as long
\* as that set has not been followed by delete(k) or clear() and its ttl has
\* not elapsed; for a key never set, deleted, or whose ttl has elapsed it
\* returns None, and the get that finds an expired entry removes it.
C24_GetReturnsLastLiveSet ==
    resp.op = "get"
        => /\ LiveAt(resp.key, resp.at) => resp.ret = written[resp.key].value
           /\ ~LiveAt(resp.key, resp.at)
                  => /\ resp.ret = None
                     /\ resp.key \notin DOMAIN cache
                     /\ resp.key \notin DOMAIN cache_ttl
           /\ resp.expired => resp.key \in DOMAIN written

\* a get has found the entry of a key set twice, at the instant of its
\* expiry, and has returned the second value
C24_Witness ==
    /\ resp.op = "get" /\ resp.key = "k1" /\ resp.ret = "'b'"
    /\ written["k1"].at > 0 /\ resp.at = written["k1"].at + written["k1"].ttl

\* a get has found an expired entry: it has returned None and removed it
C24_WitnessExpired ==
    /\ resp.op = "get" /\ resp.expired /\ resp.ret = None
    /\ resp.key \in DOMAIN written /\ resp.key \notin DOMAIN cache

(***************************************************************************)
(* OptimizationService (utils/optimization.py) with redis_client = None:   *)
(* initialize_redis is never called, and it leaves None when it fails.     *)
(***************************************************************************)
\* the literals whose value is false in `if result:`; None is what
\* CacheService.get returns for a key it does not hold
Falsy == {None, "''", "0", "[]", "{}", "False"}

\* if result: in get_from_cache
Found(result) == result \notin Falsy

\* OptimizationService.get_from_cache(key); the response tells by how much
\* the call has moved each counter
get_from_cache(key) ==
    /\ cache_hit_stats.hits + cache_hit_stats.misses < MaxLookups
    /\ LET r == CacheGet(cache, cache_ttl, key, now)
           stats == IF Found(r.ret)
                    THEN [cache_hit_stats EXCEPT !.hits = @ + 1]
                    ELSE [cache_hit_stats EXCEPT !.misses = @ + 1]
       IN  /\ cache' = r.cache
           /\ cache_ttl' = r.cache_ttl
           /\ cache_hit_stats' = stats
           /\ resp' = CacheResp("get_from_cache", key,
                                IF Found(r.ret) THEN r.ret ELSE None)
                      @@ [hits |-> stats.hits - cache_hit_stats.hits,
                          misses |-> stats.misses - cache_hit_stats.misses]
    /\ UNCHANGED <<lvars, disk, procs, ncall, metrics, inflight, written, earlier>>

\* OptimizationService.set_cache(key, value, ttl), which returns True
set_cache(key, value, ttl) ==
    /\ LET r == CacheSet(cache, cache_ttl, key, value, {ttl}, now)
       IN  /\ cache' = r.cache
           /\ cache_ttl' = r.cache_ttl
    /\ written' = With(written, key, [value |-> value, at |-> now, ttl |-> ttl])
    /\ resp' = CacheResp("set_cache", key, "True")
    /\ UNCHANGED <<lvars, disk, procs, ncall, metrics, inflight, cache_hit_stats,
                   earlier>>

\* a text, the empty text, the number 0, a number
StoredValues == {"'a'", "''", "0", "7"}
\* one clock step, and the ttl of cached_code_execution
StoredTtls == {30, 1800}

NextOptimization ==
    \/ \E key \in CacheKeys : get_from_cache(key)
    \/ \E key \in CacheKeys, value \in StoredValues, ttl \in StoredTtls :
           set_cache(key, value, ttl)
    \/ \E d \in Steps : Advance(d)

SpecOptimization == Init /\ [][NextOptimization]_vars

\* C30: without a Redis client, a get_from_cache(k) made after set_cache(k,
\* v, ttl) has returned true and before the ttl elapses returns v and is
\* counted as exactly one hit, for every stored value v; every
\* get_from_cache call increments exactly one of the two counters.
C30_GetAfterSetIsOneHit ==
    resp.op = "get_from_cache"
        => /\ resp.hits + resp.misses = 1
           /\ LiveAt(resp.key, resp.at)
                  => (resp.ret = written[resp.key].value /\ resp.hits = 1)

(***************************************************************************)
(* The limiter with cleanup passes at any point, over more than one hour.  *)
(* unswept is the map of a limiter that takes the same calls at the same   *)
(* instants and never runs a pass, with the value its last call returned.  *)
(***************************************************************************)
SweepInstants == {1, 61, 3601, 3602}

NextSweep ==
    \/ \E lt \in HourLimitTypes : is_allowed("u1", lt, "demo")
    \/ \E lt \in HourLimitTypes : get_remaining_requests("u1", lt, "demo")
    \/ cleanup_old_requests
    \/ \E t \in SweepInstants : Elapse(t)

SpecSweep == Init /\ [][NextSweep]_vars

\* C25: the cleanup sweep is invisible to admission decisions: every
\* is_allowed and get_remaining call returns what the same call returns in
\* the same sequence of calls without any sweep.
C25_SweepIsInvisible ==
    last.op \in {"is_allowed", "get_remaining"} => last.ret = unswept.ret

\* a pass has removed a key whose timestamps are older than one hour, the
\* limiter that never sweeps still holds them, and a later call on another
\* key has returned the same value in both
C25_Witness ==
    /\ last.op = "get_remaining" /\ last.limit_type = "requests_per_hour"
    /\ last.ret = unswept.ret /\ last.ret < LimitOf("requests_per_hour", "demo")
    /\ \E k \in DOMAIN unswept.requests :
           /\ unswept.requests[k] # <<>>
           /\ k \notin DOMAIN requests

(***************************************************************************)
(* The limiter called directly and through /run, on the key of user demo.  *)
(***************************************************************************)
\* the tier of the user, and a tier with a larger ceiling
QuotaTiers == {"demo", "guest"}

NextQuota ==
    \/ \E ut \in QuotaTiers : is_allowed("demo", "code_executions_per_minute", ut)
    \/ \E ut \in QuotaTiers :
           get_remaining_requests("demo", "code_executions_per_minute", ut)
    \/ /\ ncall < MaxRequests
       /\ \E code \in ApiCodes :
              run_code_endpoint("python", code, None, DemoUser, NominalEnv)
    \/ \E d \in Steps : Advance(d)

SpecQuota == Init /\ [][NextQuota]_vars

C27_AdmittedRunConsumesOneSlot ==
    [][(resp'.op = "run_code_endpoint" /\ ncall' = ncall + 1)
          => LET k == KeyOf(UserId(resp'.user), "code_executions_per_minute")
                 inside == AdmittedIn(k, now - 60, now)
                 inside_after == Cardinality({j \in 1..Len(admitted'[k]) :
                                                 admitted'[k][j] >= now - 60})
             IN  /\ resp'.limiter \in {"admitted", "denied"}
                 /\ resp'.limiter = "admitted"
                        => /\ inside_after = inside + 1
                           /\ Len(requests'[k]) = inside + 1
                 /\ resp'.limiter = "denied"
                        => /\ inside_after = inside
                           /\ Len(requests'[k]) = inside
                 /\ resp'.validator # "skipped" => resp'.limiter = "admitted"]_vars

\* the validator has rejected the code of a /run request that had been
\* admitted at this instant as the last admission the ceiling allows: the
\* rejected request has used up the quota
C27_Witness ==
    /\ resp.op = "run_code_endpoint" /\ resp.validator = "invalid"
    /\ resp.limiter = "admitted"
    /\ last.op = "is_allowed" /\ last.ret = 1 /\ last.at = now
    /\ LET k == KeyOf("demo", "code_executions_per_minute")
       IN  /\ Len(requests[k]) = LimitOf("code_executions_per_minute", "demo")
           /\ requests[k][Len(requests[k])] = now

\* the step ends a request of /run or /generate: the handler has returned a
\* result or has raised
EndsRequest ==
    /\ resp'.op \in {"run_code_endpoint", "generate_code_endpoint"}
    /\ resp'.status \in {"returned", "raised"}
    /\ ncall' = ncall + 1 \/ DOMAIN inflight' # DOMAIN inflight

\* C28: every request the run or the generate endpoint handles records
\* exactly one request metric, whether it returns a result, raises an HTTP
\* error or meets an unexpected exception, and the request is counted as an
\* error exactly when the endpoint has raised; requests_errors never
\* exceeds requests_total.
C28_OneMetricPerRequest ==
    [][/\ metrics'.requests_total
             = metrics.requests_total + (IF EndsRequest THEN 1 ELSE 0)
       /\ metrics'.requests_errors
             = metrics.requests_errors
                 + (IF EndsRequest /\ resp'.status = "raised" THEN 1 ELSE 0)
       /\ metrics'.requests_errors <= metrics'.requests_total]_vars

\* the three paths have been taken: a /run request has returned a result, a
\* request has been refused with an HTTP error, and the AI call of a
\* /generate request has raised
C28_Witness ==
    /\ resp.op = "generate_code_endpoint" /\ resp.status = "raised" /\ resp.http = 500
    /\ metrics.requests_errors >= 2
    /\ metrics.requests_total > metrics.requests_errors
    /\ ncall = MaxRequests

====
